---- MODULE Spec2Model ----
(***************************************************************************)
(* The playback session of Brick's native audio backend                    *)
(* (src-tauri/src/lib.rs): one AudioState record behind Arc<Mutex<_>>,     *)
(* mutated by the tauri commands play_song, pause_song, resume_song,       *)
(* stop_song, set_volume and seek_to, each of which publishes a status     *)
(* event with emit_audio_state.  Every statement of a command is one step  *)
(* of the calling thread, so that the states between two statements (a new *)
(* sink already playing while the old one has not been stopped, an event   *)
(* emitted while the guard is alive) are states of the model.              *)
(*                                                                         *)
(* Numbers: a volume is modelled in tenths (10 is 1.0), a position in      *)
(* whole seconds.  Option<T> is a sequence of length 0 or 1.               *)
(***************************************************************************)
EXTENDS Integers, Sequences, FiniteSets, TLC

VARIABLES
    audio,            \* the AudioState record: sink, current_file, volume
    mutex,            \* the Mutex around it: holder and poison flag
    pc,               \* each thread's position in the command it runs
    cmd,              \* the command each thread runs (or ran last)
    file_path,        \* play_song's parameter / seek_to's local file_path
    level,            \* set_volume's parameter (absent in the other commands)
    position_seconds, \* seek_to's parameter (absent in the other commands)
    new_sink,         \* the local new_sink of play_song and seek_to
    result,           \* what the last command of the thread returned
    sent,             \* the payloads the thread emitted in its current command
    last_event,       \* the payload published last on "native-audio://state"
    before,           \* history: AudioState when the mutex was last free
    serial,           \* history: AudioState of the one-after-another execution
    pending,          \* history: threads that mutated and have not emitted yet
    scenario,         \* history: how far the calls so far follow Scenario
    installed         \* history: play_song or seek_to has installed a sink
                      \* since stop_song last replaced it (or since run())

vars == <<audio, mutex, pc, cmd, file_path, level, position_seconds, new_sink,
          result, sent, last_event, before, serial, pending, scenario,
          installed>>

(***************************************************************************)
(* Values                                                                  *)
(***************************************************************************)
Threads == {"t1", "t2"}

None == <<>>
Some(x) == <<x>>

\* 1.0 in tenths: the upper end of clamp(0.0, 1.0), the initial volume and
\* the gain of a sink as rodio's Sink::try_new makes it.
FullVolume == 10

\* The largest number of seconds a Duration holds (u64::MAX in the program;
\* scaled down here).  Duration::from_secs_f32 panics above it.
DurationMaxSecs == 100

Paths == {"track.mp3", "other.mp3"}
Levels == {-5, 5, 15}
Positions == {-1, 0, 30, DurationMaxSecs + 1}

NoThread == "none"
NoCommand == "none"

Commands == {"play_song", "pause_song", "resume_song", "stop_song",
             "set_volume", "seek_to"}

Ok == "Ok"
MutexLockError == "Mutex lock error"
FileOpeningError == "File opening error"
DecoderError == "Decoder error"
SinkCreationError == "Sink creation error"
NoTrackLoaded == "No track loaded"
NoResult == "none"

(***************************************************************************)
(* rodio's Sink, as the commands use it                                    *)
(***************************************************************************)
\* Sink::try_new: an empty queue, playing (not paused), gain 1.0.
SinkNew == [stopped |-> FALSE, paused |-> FALSE, queue |-> None,
            volume |-> FullVolume]

SinkSetVolume(s, v) == [s EXCEPT !.volume = v]

\* append: the source is queued; an unpaused sink starts playing it at once.
SinkAppend(s, source) == [s EXCEPT !.queue = Some(source)]

\* stop: the queue is emptied and the sink stops.
SinkStop(s) == [s EXCEPT !.stopped = TRUE, !.queue = None]

SinkPause(s) == [s EXCEPT !.paused = TRUE]

SinkPlay(s) == [s EXCEPT !.paused = FALSE]

\* A sink produces sound when it plays a queued source.
Sounding(s) == ~s.stopped /\ ~s.paused /\ s.queue # None

\* Decoder::new over the file, played from its start.
Decoded(path) == [file |-> path, skip |-> 0]

\* f32::max(self, 0.0)
Max0(p) == IF p > 0 THEN p ELSE 0

\* Clamp as it would be with the upper end alone, as f32::min(self, 1.0).
ClampUpperOnly(l) == IF l > FullVolume THEN FullVolume ELSE l

\* f32::clamp(self, 0.0, 1.0)
Clamp(l) == IF l < 0 THEN 0 ELSE IF l > FullVolume THEN FullVolume ELSE l

\* Duration::from_secs_f32 returns for a value a Duration holds and panics
\* for any other.
FitsDuration(p) == p >= 0 /\ p <= DurationMaxSecs

\* decoder.skip_duration(d)
SkipDuration(source, d) == [source EXCEPT !.skip = d]

AudioEventPayload(status, file, position, volume) ==
    [status |-> status, file_path |-> file, position |-> position,
     volume |-> volume]

(***************************************************************************)
(* The calls a caller can make                                             *)
(***************************************************************************)
Call(c, path, l, p) ==
    [cmd |-> c, file_path |-> path, level |-> l, position_seconds |-> p]

Calls ==
    {Call("play_song", Some(path), None, None) : path \in Paths}
    \cup {Call(c, None, None, None) :
            c \in {"pause_song", "resume_song", "stop_song"}}
    \cup {Call("set_volume", None, Some(l), None) : l \in Levels}
    \cup {Call("seek_to", None, None, Some(p)) : p \in Positions}

CallOf(t) == Call(cmd[t], file_path[t], level[t], position_seconds[t])

\* The statement that follows the lock in each command.
FirstStep(c) ==
    CASE c = "play_song" -> "play_open"
      [] c = "pause_song" -> "pause_pause"
      [] c = "resume_song" -> "resume_play"
      [] c = "stop_song" -> "stop_stop"
      [] c = "set_volume" -> "volume_store"
      [] c = "seek_to" -> "seek_current_file"

\* The sink play_song and seek_to build: new, at the session's volume, with
\* the source queued.
SinkFor(a, source) == SinkAppend(SinkSetVolume(SinkNew, a.volume), source)

\* What a command does to the AudioState a when it runs from its lock to its
\* return with nothing in between, given what it returned.
Sequential(a, call, r) ==
    CASE r = MutexLockError -> a
      [] r # MutexLockError /\ call.cmd = "play_song" ->
            IF r = Ok
            THEN [sink |-> SinkFor(a, Decoded(call.file_path[1])),
                  current_file |-> call.file_path,
                  volume |-> a.volume]
            ELSE a
      [] r # MutexLockError /\ call.cmd = "pause_song" ->
            [a EXCEPT !.sink = SinkPause(@)]
      [] r # MutexLockError /\ call.cmd = "resume_song" ->
            [a EXCEPT !.sink = SinkPlay(@)]
      [] r # MutexLockError /\ call.cmd = "stop_song" ->
            IF r = Ok
            THEN [a EXCEPT !.sink = SinkNew, !.current_file = None]
            ELSE [a EXCEPT !.sink = SinkStop(@)]
      [] r # MutexLockError /\ call.cmd = "set_volume" ->
            [a EXCEPT !.volume = Clamp(call.level[1]),
                      !.sink = SinkSetVolume(@, Clamp(call.level[1]))]
      [] r # MutexLockError /\ call.cmd = "seek_to" ->
            IF r = Ok
            THEN [a EXCEPT !.sink =
                    SinkFor(a, SkipDuration(Decoded(a.current_file[1]),
                                            Max0(call.position_seconds[1])))]
            ELSE a

(***************************************************************************)
(* The end-to-end scenario of the specification                            *)
(***************************************************************************)
Scenario ==
    << Call("play_song", Some("track.mp3"), None, None),
       Call("pause_song", None, None, None),
       Call("set_volume", None, Some(5), None),
       Call("seek_to", None, None, Some(30)),
       Call("stop_song", None, None, None) >>

\* The value of scenario once the calls made no longer follow Scenario.
Derailed == Len(Scenario) + 1

(***************************************************************************)
(* Initial state: run()                                                    *)
(***************************************************************************)
Init ==
    /\ audio = [sink |-> SinkNew, current_file |-> None, volume |-> FullVolume]
    /\ mutex = [holder |-> NoThread, poisoned |-> FALSE]
    /\ pc = [t \in Threads |-> "idle"]
    /\ cmd = [t \in Threads |-> NoCommand]
    /\ file_path = [t \in Threads |-> None]
    /\ level = [t \in Threads |-> None]
    /\ position_seconds = [t \in Threads |-> None]
    /\ new_sink = [t \in Threads |-> None]
    /\ result = [t \in Threads |-> NoResult]
    /\ sent = [t \in Threads |-> <<>>]
    /\ last_event = None
    /\ before = [sink |-> SinkNew, current_file |-> None, volume |-> FullVolume]
    /\ serial = [sink |-> SinkNew, current_file |-> None, volume |-> FullVolume]
    /\ pending = <<>>
    /\ scenario = 0
    /\ installed = FALSE

(***************************************************************************)
(* Steps shared by the commands                                            *)
(***************************************************************************)
params == <<cmd, level, position_seconds>>

\* The thread goes on to its next statement.
Goto(t, label) ==
    /\ pc' = [pc EXCEPT ![t] = label]
    /\ UNCHANGED <<mutex, result, serial, scenario>>

\* The same, after a statement that installs no sink in the AudioState.
Continue(t, label) ==
    /\ Goto(t, label)
    /\ UNCHANGED installed

\* The command's return value is r: Ok(()) is evaluated, or a `?` takes its
\* error.  The function has not left its scope yet.
Return(t, r) ==
    /\ pc' = [pc EXCEPT ![t] = "return"]
    /\ result' = [result EXCEPT ![t] = r]
    /\ UNCHANGED <<mutex, serial, scenario, installed>>

\* app.emit("native-audio://state", payload)
emit_audio_state(t, payload) ==
    /\ last_event' = Some(payload)
    /\ sent' = [sent EXCEPT ![t] = Append(@, payload)]
    /\ pending' = SelectSeq(pending, LAMBDA u : u # t)

\* The thread has made the last change of its command to the AudioState.
Committed(t) == pending' = Append(pending, t)

\* A caller invokes a command.
Invoke(t) ==
    /\ pc[t] = "idle"
    /\ \E call \in Calls :
         /\ cmd' = [cmd EXCEPT ![t] = call.cmd]
         /\ file_path' = [file_path EXCEPT ![t] = call.file_path]
         /\ level' = [level EXCEPT ![t] = call.level]
         /\ position_seconds' =
                [position_seconds EXCEPT ![t] = call.position_seconds]
    /\ pc' = [pc EXCEPT ![t] = "lock"]
    /\ UNCHANGED <<audio, mutex, new_sink, result, sent, last_event, before,
                   serial, pending, scenario, installed>>

\* lock as it would be if it did not wait for the mutex to be free.
lock_without_exclusion(t) ==
    /\ pc[t] = "lock"
    /\ ~mutex.poisoned
    /\ mutex' = [mutex EXCEPT !.holder = t]
    /\ pc' = [pc EXCEPT ![t] = FirstStep(cmd[t])]
    /\ before' = audio
    /\ scenario' = Derailed
    /\ UNCHANGED <<audio, params, file_path, new_sink, result, sent,
                   last_event, serial, pending, installed>>

\* state.inner().lock().map_err(..)?: blocks while another thread holds the
\* mutex; a poisoned mutex gives the error, and the guard inside it is dropped.
lock(t) ==
    /\ pc[t] = "lock"
    /\ mutex.holder = NoThread
    /\ IF mutex.poisoned
       THEN /\ pc' = [pc EXCEPT ![t] = "return"]
            /\ result' = [result EXCEPT ![t] = MutexLockError]
            /\ UNCHANGED <<mutex, before, scenario>>
       ELSE /\ mutex' = [mutex EXCEPT !.holder = t]
            /\ pc' = [pc EXCEPT ![t] = FirstStep(cmd[t])]
            /\ before' = audio
            /\ scenario' = IF /\ scenario < Len(Scenario)
                              /\ CallOf(t) = Scenario[scenario + 1]
                           THEN scenario + 1
                           ELSE Derailed
            /\ UNCHANGED result
    /\ UNCHANGED <<audio, params, file_path, new_sink, sent, last_event,
                   serial, pending, installed>>

\* The function leaves its scope: its locals are dropped, the guard among
\* them, which unlocks the mutex, and the caller has the return value.
exit(t) ==
    /\ pc[t] = "return"
    /\ pc' = [pc EXCEPT ![t] = "idle"]
    /\ mutex' = IF mutex.holder = t THEN [mutex EXCEPT !.holder = NoThread]
                ELSE mutex
    /\ cmd' = [cmd EXCEPT ![t] = NoCommand]
    /\ file_path' = [file_path EXCEPT ![t] = None]
    /\ level' = [level EXCEPT ![t] = None]
    /\ position_seconds' = [position_seconds EXCEPT ![t] = None]
    /\ result' = [result EXCEPT ![t] = NoResult]
    /\ sent' = [sent EXCEPT ![t] = <<>>]
    /\ serial' = Sequential(serial, CallOf(t), result[t])
    /\ before' = audio
    /\ scenario' = IF result[t] = Ok THEN scenario ELSE Derailed
    /\ UNCHANGED <<audio, new_sink, last_event, pending, installed>>

(***************************************************************************)
(* play_song (lines 54-91)                                                 *)
(***************************************************************************)
\* File::open(&file_path).map_err(..)?
play_song_open(t) ==
    /\ pc[t] = "play_open"
    /\ \E opened \in BOOLEAN :
         IF opened THEN Continue(t, "play_decode")
         ELSE Return(t, FileOpeningError)
    /\ UNCHANGED <<audio, params, file_path, new_sink, sent, last_event,
                   before, pending>>

\* play_song_decode as it would be if the old sink were stopped as soon as the
\* file is decoded, before the new sink exists.
play_song_decode_stops_sink(t) ==
    /\ pc[t] = "play_decode"
    /\ \E decoded \in BOOLEAN :
         IF decoded
         THEN /\ audio' = [audio EXCEPT !.sink = SinkStop(@)]
              /\ Continue(t, "play_try_new")
         ELSE /\ Return(t, DecoderError)
              /\ UNCHANGED audio
    /\ UNCHANGED <<params, file_path, new_sink, sent, last_event, before,
                   pending>>

\* Decoder::new(BufReader::new(file)).map_err(..)?
play_song_decode(t) ==
    /\ pc[t] = "play_decode"
    /\ \E decoded \in BOOLEAN :
         IF decoded THEN Continue(t, "play_try_new")
         ELSE Return(t, DecoderError)
    /\ UNCHANGED <<audio, params, file_path, new_sink, sent, last_event,
                   before, pending>>

\* let new_sink = Sink::try_new(&audio.stream_handle).map_err(..)?
play_song_try_new(t) ==
    /\ pc[t] = "play_try_new"
    /\ \E created \in BOOLEAN :
         IF created
         THEN /\ new_sink' = [new_sink EXCEPT ![t] = Some(SinkNew)]
              /\ Continue(t, "play_set_volume")
         ELSE /\ Return(t, SinkCreationError)
              /\ UNCHANGED new_sink
    /\ UNCHANGED <<audio, params, file_path, sent, last_event, before,
                   pending>>

\* new_sink.set_volume(audio.volume)
play_song_set_volume(t) ==
    /\ pc[t] = "play_set_volume"
    /\ new_sink' = [new_sink EXCEPT
                      ![t] = Some(SinkSetVolume(@[1], audio.volume))]
    /\ Continue(t, "play_append")
    /\ UNCHANGED <<audio, params, file_path, sent, last_event, before,
                   pending>>

\* new_sink.append(decoder)
play_song_append(t) ==
    /\ pc[t] = "play_append"
    /\ new_sink' = [new_sink EXCEPT
                      ![t] = Some(SinkAppend(@[1], Decoded(file_path[t][1])))]
    /\ Continue(t, "play_stop")
    /\ UNCHANGED <<audio, params, file_path, sent, last_event, before,
                   pending>>

\* audio.sink.stop()
play_song_stop(t) ==
    /\ pc[t] = "play_stop"
    /\ audio' = [audio EXCEPT !.sink = SinkStop(@)]
    /\ Continue(t, "play_assign")
    /\ UNCHANGED <<params, file_path, new_sink, sent, last_event, before,
                   pending>>

\* audio.sink = new_sink (the sink that was there is dropped)
play_song_assign(t) ==
    /\ pc[t] = "play_assign"
    /\ audio' = [audio EXCEPT !.sink = new_sink[t][1]]
    /\ new_sink' = [new_sink EXCEPT ![t] = None]
    /\ installed' = TRUE
    /\ Goto(t, "play_current_file")
    /\ UNCHANGED <<params, file_path, sent, last_event, before, pending>>

\* play_song_current_file as it would be if the path were not stored.
play_song_current_file_skips(t) ==
    /\ pc[t] = "play_current_file"
    /\ Committed(t)
    /\ Continue(t, "play_emit")
    /\ UNCHANGED <<audio, params, file_path, new_sink, sent, last_event,
                   before>>

\* audio.current_file = Some(file_path.clone())
play_song_current_file(t) ==
    /\ pc[t] = "play_current_file"
    /\ audio' = [audio EXCEPT !.current_file = file_path[t]]
    /\ Committed(t)
    /\ Continue(t, "play_emit")
    /\ UNCHANGED <<params, file_path, new_sink, sent, last_event, before>>

\* emit_audio_state(&app, AudioEventPayload { "playing", .. })
play_song_emit(t) ==
    /\ pc[t] = "play_emit"
    /\ emit_audio_state(t, AudioEventPayload("playing", file_path[t], Some(0),
                                             Some(audio.volume)))
    /\ Continue(t, "play_return")
    /\ UNCHANGED <<audio, params, file_path, new_sink, before>>

\* Ok(())
play_song_return(t) ==
    /\ pc[t] = "play_return"
    /\ Return(t, Ok)
    /\ UNCHANGED <<audio, params, file_path, new_sink, sent, last_event,
                   before, pending>>

play_song(t) ==
    \/ play_song_open(t)
    \/ play_song_decode(t)
    \/ play_song_try_new(t)
    \/ play_song_set_volume(t)
    \/ play_song_append(t)
    \/ play_song_stop(t)
    \/ play_song_assign(t)
    \/ play_song_current_file(t)
    \/ play_song_emit(t)
    \/ play_song_return(t)

(***************************************************************************)
(* pause_song (lines 93-113) and resume_song (lines 115-135)               *)
(***************************************************************************)
\* pause_song_pause as it would be if the guard were dropped right after the
\* pause, before the event is emitted.
pause_song_pause_unlocks(t) ==
    /\ pc[t] = "pause_pause"
    /\ audio' = [audio EXCEPT !.sink = SinkPause(@)]
    /\ Committed(t)
    /\ pc' = [pc EXCEPT ![t] = "pause_emit"]
    /\ mutex' = [mutex EXCEPT !.holder = NoThread]
    /\ UNCHANGED <<params, file_path, new_sink, result, sent, last_event,
                   before, serial, scenario, installed>>

\* audio.sink.pause()
pause_song_pause(t) ==
    /\ pc[t] = "pause_pause"
    /\ audio' = [audio EXCEPT !.sink = SinkPause(@)]
    /\ Committed(t)
    /\ Continue(t, "pause_emit")
    /\ UNCHANGED <<params, file_path, new_sink, sent, last_event, before>>

\* emit_audio_state(&app, AudioEventPayload { "paused", .. })
pause_song_emit(t) ==
    /\ pc[t] = "pause_emit"
    /\ emit_audio_state(t, AudioEventPayload("paused", audio.current_file, None,
                                             Some(audio.volume)))
    /\ Continue(t, "pause_return")
    /\ UNCHANGED <<audio, params, file_path, new_sink, before>>

\* Ok(())
pause_song_return(t) ==
    /\ pc[t] = "pause_return"
    /\ Return(t, Ok)
    /\ UNCHANGED <<audio, params, file_path, new_sink, sent, last_event,
                   before, pending>>

pause_song(t) ==
    \/ pause_song_pause(t)
    \/ pause_song_emit(t)
    \/ pause_song_return(t)

\* resume_song_play as it would be if it put a new sink, at the session's
\* volume, in the place of the paused one.
resume_song_play_replaces(t) ==
    /\ pc[t] = "resume_play"
    /\ audio' = [audio EXCEPT !.sink = SinkSetVolume(SinkNew, audio.volume)]
    /\ Committed(t)
    /\ Continue(t, "resume_emit")
    /\ UNCHANGED <<params, file_path, new_sink, sent, last_event, before>>

\* audio.sink.play()
resume_song_play(t) ==
    /\ pc[t] = "resume_play"
    /\ audio' = [audio EXCEPT !.sink = SinkPlay(@)]
    /\ Committed(t)
    /\ Continue(t, "resume_emit")
    /\ UNCHANGED <<params, file_path, new_sink, sent, last_event, before>>

\* emit_audio_state(&app, AudioEventPayload { "playing", .. })
resume_song_emit(t) ==
    /\ pc[t] = "resume_emit"
    /\ emit_audio_state(t, AudioEventPayload("playing", audio.current_file,
                                             None, Some(audio.volume)))
    /\ Continue(t, "resume_return")
    /\ UNCHANGED <<audio, params, file_path, new_sink, before>>

\* Ok(())
resume_song_return(t) ==
    /\ pc[t] = "resume_return"
    /\ Return(t, Ok)
    /\ UNCHANGED <<audio, params, file_path, new_sink, sent, last_event,
                   before, pending>>

resume_song(t) ==
    \/ resume_song_play(t)
    \/ resume_song_emit(t)
    \/ resume_song_return(t)

(***************************************************************************)
(* stop_song (lines 137-160)                                               *)
(***************************************************************************)
\* stop_song_stop as it would be if the event were emitted before the new
\* sink is made.
stop_song_stop_emits(t) ==
    /\ pc[t] = "stop_stop"
    /\ audio' = [audio EXCEPT !.sink = SinkStop(@)]
    /\ emit_audio_state(t, AudioEventPayload("stopped", None, None,
                                             Some(audio.volume)))
    /\ Continue(t, "stop_try_new")
    /\ UNCHANGED <<params, file_path, new_sink, before>>

\* audio.sink.stop()
stop_song_stop(t) ==
    /\ pc[t] = "stop_stop"
    /\ audio' = [audio EXCEPT !.sink = SinkStop(@)]
    /\ Continue(t, "stop_try_new")
    /\ UNCHANGED <<params, file_path, new_sink, sent, last_event, before,
                   pending>>

\* stop_song_try_new as it would be if the stored volume were set back to the
\* gain of the new sink.
stop_song_try_new_resets_volume(t) ==
    /\ pc[t] = "stop_try_new"
    /\ \E created \in BOOLEAN :
         IF created
         THEN /\ audio' = [audio EXCEPT !.sink = SinkNew,
                                        !.volume = SinkNew.volume]
              /\ installed' = FALSE
              /\ Goto(t, "stop_current_file")
         ELSE /\ Return(t, SinkCreationError)
              /\ UNCHANGED audio
    /\ UNCHANGED <<params, file_path, new_sink, sent, last_event, before,
                   pending>>

\* audio.sink = Sink::try_new(&audio.stream_handle).map_err(..)?
stop_song_try_new(t) ==
    /\ pc[t] = "stop_try_new"
    /\ \E created \in BOOLEAN :
         IF created
         THEN /\ audio' = [audio EXCEPT !.sink = SinkNew]
              /\ installed' = FALSE
              /\ Goto(t, "stop_current_file")
         ELSE /\ Return(t, SinkCreationError)
              /\ UNCHANGED audio
    /\ UNCHANGED <<params, file_path, new_sink, sent, last_event, before,
                   pending>>

\* stop_song_current_file as it would be if current_file were not cleared.
stop_song_current_file_keeps(t) ==
    /\ pc[t] = "stop_current_file"
    /\ Committed(t)
    /\ Continue(t, "stop_emit")
    /\ UNCHANGED <<audio, params, file_path, new_sink, sent, last_event,
                   before>>

\* audio.current_file = None
stop_song_current_file(t) ==
    /\ pc[t] = "stop_current_file"
    /\ audio' = [audio EXCEPT !.current_file = None]
    /\ Committed(t)
    /\ Continue(t, "stop_emit")
    /\ UNCHANGED <<params, file_path, new_sink, sent, last_event, before>>

\* emit_audio_state(&app, AudioEventPayload { "stopped", .. })
stop_song_emit(t) ==
    /\ pc[t] = "stop_emit"
    /\ emit_audio_state(t, AudioEventPayload("stopped", None, None,
                                             Some(audio.volume)))
    /\ Continue(t, "stop_return")
    /\ UNCHANGED <<audio, params, file_path, new_sink, before>>

\* Ok(())
stop_song_return(t) ==
    /\ pc[t] = "stop_return"
    /\ Return(t, Ok)
    /\ UNCHANGED <<audio, params, file_path, new_sink, sent, last_event,
                   before, pending>>

stop_song(t) ==
    \/ stop_song_stop(t)
    \/ stop_song_try_new(t)
    \/ stop_song_current_file(t)
    \/ stop_song_emit(t)
    \/ stop_song_return(t)

(***************************************************************************)
(* set_volume (lines 230-256)                                              *)
(***************************************************************************)
\* let clamped = level.clamp(0.0, 1.0)
clamped(t) == Clamp(level[t][1])

\* audio.volume = clamped
set_volume_store(t) ==
    /\ pc[t] = "volume_store"
    /\ audio' = [audio EXCEPT !.volume = clamped(t)]
    /\ Continue(t, "volume_sink")
    /\ UNCHANGED <<params, file_path, new_sink, sent, last_event, before,
                   pending>>

\* set_volume_sink as it would be if a new sink with the new gain took the
\* place of the active one.
set_volume_sink_replaces(t) ==
    /\ pc[t] = "volume_sink"
    /\ audio' = [audio EXCEPT !.sink = SinkSetVolume(SinkNew, clamped(t))]
    /\ Committed(t)
    /\ Continue(t, "volume_emit")
    /\ UNCHANGED <<params, file_path, new_sink, sent, last_event, before>>

\* set_volume_sink as it would be if the guard were dropped right after the
\* sink's gain is set, before the event is emitted.
set_volume_sink_unlocks(t) ==
    /\ pc[t] = "volume_sink"
    /\ audio' = [audio EXCEPT !.sink = SinkSetVolume(@, clamped(t))]
    /\ Committed(t)
    /\ pc' = [pc EXCEPT ![t] = "volume_emit"]
    /\ mutex' = [mutex EXCEPT !.holder = NoThread]
    /\ UNCHANGED <<params, file_path, new_sink, result, sent, last_event,
                   before, serial, scenario, installed>>

\* audio.sink.set_volume(clamped)
set_volume_sink(t) ==
    /\ pc[t] = "volume_sink"
    /\ audio' = [audio EXCEPT !.sink = SinkSetVolume(@, clamped(t))]
    /\ Committed(t)
    /\ Continue(t, "volume_emit")
    /\ UNCHANGED <<params, file_path, new_sink, sent, last_event, before>>

\* emit_audio_state(&app, AudioEventPayload { "volume", .. })
set_volume_emit(t) ==
    /\ pc[t] = "volume_emit"
    /\ emit_audio_state(t, AudioEventPayload("volume", audio.current_file, None,
                                             Some(clamped(t))))
    /\ Continue(t, "volume_return")
    /\ UNCHANGED <<audio, params, file_path, new_sink, before>>

\* Ok(())
set_volume_return(t) ==
    /\ pc[t] = "volume_return"
    /\ Return(t, Ok)
    /\ UNCHANGED <<audio, params, file_path, new_sink, sent, last_event,
                   before, pending>>

set_volume(t) ==
    \/ set_volume_store(t)
    \/ set_volume_sink(t)
    \/ set_volume_emit(t)
    \/ set_volume_return(t)

(***************************************************************************)
(* seek_to (lines 258-298)                                                 *)
(***************************************************************************)
\* The thread panics while it holds the guard: the guard is dropped during
\* unwinding, which unlocks the mutex and poisons it; the command returns
\* nothing.
Panic(t) ==
    /\ pc' = [pc EXCEPT ![t] = "panicked"]
    /\ mutex' = [holder |-> NoThread, poisoned |-> TRUE]
    /\ scenario' = Derailed
    /\ UNCHANGED <<result, serial, installed>>

\* seek_to_current_file as it would be if the active sink were stopped before
\* current_file is looked at.
seek_to_current_file_stops_sink(t) ==
    /\ pc[t] = "seek_current_file"
    /\ audio' = [audio EXCEPT !.sink = SinkStop(@)]
    /\ IF audio.current_file = None
       THEN /\ Return(t, NoTrackLoaded)
            /\ UNCHANGED file_path
       ELSE /\ file_path' = [file_path EXCEPT ![t] = audio.current_file]
            /\ Continue(t, "seek_open")
    /\ UNCHANGED <<params, new_sink, sent, last_event, before, pending>>

\* let file_path = audio.current_file.clone().ok_or_else(..)?
seek_to_current_file(t) ==
    /\ pc[t] = "seek_current_file"
    /\ IF audio.current_file = None
       THEN /\ Return(t, NoTrackLoaded)
            /\ UNCHANGED file_path
       ELSE /\ file_path' = [file_path EXCEPT ![t] = audio.current_file]
            /\ Continue(t, "seek_open")
    /\ UNCHANGED <<audio, params, new_sink, sent, last_event, before, pending>>

\* File::open(&file_path).map_err(..)?
seek_to_open(t) ==
    /\ pc[t] = "seek_open"
    /\ \E opened \in BOOLEAN :
         IF opened THEN Continue(t, "seek_decode")
         ELSE Return(t, FileOpeningError)
    /\ UNCHANGED <<audio, params, file_path, new_sink, sent, last_event,
                   before, pending>>

\* Decoder::new(BufReader::new(file)).map_err(..)?
seek_to_decode(t) ==
    /\ pc[t] = "seek_decode"
    /\ \E decoded \in BOOLEAN :
         IF decoded THEN Continue(t, "seek_skip")
         ELSE Return(t, DecoderError)
    /\ UNCHANGED <<audio, params, file_path, new_sink, sent, last_event,
                   before, pending>>

\* let skipped = decoder.skip_duration(
\*     Duration::from_secs_f32(position_seconds.max(0.0)))
seek_to_skip(t) ==
    /\ pc[t] = "seek_skip"
    /\ IF FitsDuration(Max0(position_seconds[t][1]))
       THEN Continue(t, "seek_try_new")
       ELSE Panic(t)
    /\ UNCHANGED <<audio, params, file_path, new_sink, sent, last_event,
                   before, pending>>

skipped(t) ==
    SkipDuration(Decoded(file_path[t][1]), Max0(position_seconds[t][1]))

\* seek_to_try_new as it would be if the new sink took over the paused flag
\* of the active one.
seek_to_try_new_keeps_pause(t) ==
    /\ pc[t] = "seek_try_new"
    /\ \E created \in BOOLEAN :
         IF created
         THEN /\ new_sink' = [new_sink EXCEPT
                    ![t] = Some([SinkNew EXCEPT !.paused = audio.sink.paused])]
              /\ Continue(t, "seek_set_volume")
         ELSE /\ Return(t, SinkCreationError)
              /\ UNCHANGED new_sink
    /\ UNCHANGED <<audio, params, file_path, sent, last_event, before,
                   pending>>

\* let new_sink = Sink::try_new(&audio.stream_handle).map_err(..)?
seek_to_try_new(t) ==
    /\ pc[t] = "seek_try_new"
    /\ \E created \in BOOLEAN :
         IF created
         THEN /\ new_sink' = [new_sink EXCEPT ![t] = Some(SinkNew)]
              /\ Continue(t, "seek_set_volume")
         ELSE /\ Return(t, SinkCreationError)
              /\ UNCHANGED new_sink
    /\ UNCHANGED <<audio, params, file_path, sent, last_event, before,
                   pending>>

\* new_sink.set_volume(audio.volume)
seek_to_set_volume(t) ==
    /\ pc[t] = "seek_set_volume"
    /\ new_sink' = [new_sink EXCEPT
                      ![t] = Some(SinkSetVolume(@[1], audio.volume))]
    /\ Continue(t, "seek_append")
    /\ UNCHANGED <<audio, params, file_path, sent, last_event, before,
                   pending>>

\* seek_to_append as it would be if the decoder were queued without the skip.
seek_to_append_unskipped(t) ==
    /\ pc[t] = "seek_append"
    /\ new_sink' = [new_sink EXCEPT
                      ![t] = Some(SinkAppend(@[1], Decoded(file_path[t][1])))]
    /\ Continue(t, "seek_stop")
    /\ UNCHANGED <<audio, params, file_path, sent, last_event, before,
                   pending>>

\* new_sink.append(skipped)
seek_to_append(t) ==
    /\ pc[t] = "seek_append"
    /\ new_sink' = [new_sink EXCEPT ![t] = Some(SinkAppend(@[1], skipped(t)))]
    /\ Continue(t, "seek_stop")
    /\ UNCHANGED <<audio, params, file_path, sent, last_event, before,
                   pending>>

\* audio.sink.stop()
seek_to_stop(t) ==
    /\ pc[t] = "seek_stop"
    /\ audio' = [audio EXCEPT !.sink = SinkStop(@)]
    /\ Continue(t, "seek_assign")
    /\ UNCHANGED <<params, file_path, new_sink, sent, last_event, before,
                   pending>>

\* audio.sink = new_sink (the sink that was there is dropped)
seek_to_assign(t) ==
    /\ pc[t] = "seek_assign"
    /\ audio' = [audio EXCEPT !.sink = new_sink[t][1]]
    /\ new_sink' = [new_sink EXCEPT ![t] = None]
    /\ installed' = TRUE
    /\ Committed(t)
    /\ Goto(t, "seek_emit")
    /\ UNCHANGED <<params, file_path, sent, last_event, before>>

\* seek_to_emit as it would be if the position were emitted as it was given.
seek_to_emit_unclamped(t) ==
    /\ pc[t] = "seek_emit"
    /\ emit_audio_state(t, AudioEventPayload("seeking", file_path[t],
                                             position_seconds[t],
                                             Some(audio.volume)))
    /\ Continue(t, "seek_return")
    /\ UNCHANGED <<audio, params, file_path, new_sink, before>>

\* emit_audio_state(&app, AudioEventPayload { "seeking", .. })
seek_to_emit(t) ==
    /\ pc[t] = "seek_emit"
    /\ emit_audio_state(t, AudioEventPayload("seeking", file_path[t],
                                             Some(Max0(position_seconds[t][1])),
                                             Some(audio.volume)))
    /\ Continue(t, "seek_return")
    /\ UNCHANGED <<audio, params, file_path, new_sink, before>>

\* Ok(())
seek_to_return(t) ==
    /\ pc[t] = "seek_return"
    /\ Return(t, Ok)
    /\ UNCHANGED <<audio, params, file_path, new_sink, sent, last_event,
                   before, pending>>

seek_to(t) ==
    \/ seek_to_current_file(t)
    \/ seek_to_open(t)
    \/ seek_to_decode(t)
    \/ seek_to_skip(t)
    \/ seek_to_try_new(t)
    \/ seek_to_set_volume(t)
    \/ seek_to_append(t)
    \/ seek_to_stop(t)
    \/ seek_to_assign(t)
    \/ seek_to_emit(t)
    \/ seek_to_return(t)

(***************************************************************************)
(* The program                                                             *)
(***************************************************************************)
Next ==
    \E t \in Threads :
        \/ Invoke(t)
        \/ lock(t)
        \/ exit(t)
        \/ play_song(t)
        \/ pause_song(t)
        \/ resume_song(t)
        \/ stop_song(t)
        \/ set_volume(t)
        \/ seek_to(t)

Spec == Init /\ [][Next]_vars

(***************************************************************************)
(* Properties                                                              *)
(***************************************************************************)
\* The thread is at a statement between its lock and the end of its function.
InSection(t) ==
    /\ pc[t] \notin {"idle", "lock", "panicked"}
    /\ ~(pc[t] = "return" /\ result[t] = MutexLockError)

\* The thread is at its emit_audio_state statement.
AtEmit(t) ==
    pc[t] \in {"play_emit", "pause_emit", "resume_emit", "stop_emit",
               "volume_emit", "seek_emit"}

\* The thread's command has failed and has not left its function yet.
Failed(t) == pc[t] = "return" /\ result[t] # Ok

\* The thread's command has succeeded and has not left its function yet.
Succeeded(t) == pc[t] = "return" /\ result[t] = Ok

\* C1: a play_song (Load) or seek_to (SeekTo) that fails, for whatever
\* reason, leaves the AudioState as it was when the command began: the same
\* sink in the same state (not stopped, paused or not as before), the same
\* current_file, the same volume.
C1_FailedLoadOrSeekLeavesSession ==
    \A t \in Threads :
        Failed(t) /\ cmd[t] \in {"play_song", "seek_to"} => audio = before

\* A play_song fails on Sink::try_new while a track is playing, and a seek_to
\* fails on its decoder while a track is loaded.
C1_Witness ==
    \E t \in Threads :
        /\ Failed(t)
        /\ \/ cmd[t] = "play_song" /\ result[t] = SinkCreationError
           \/ cmd[t] = "seek_to" /\ result[t] = DecoderError
        /\ audio.current_file # None
        /\ Sounding(audio.sink)

\* C2: a stop_song (Stop) that fails because the new sink cannot be made
\* leaves the AudioState as it was: the sink not stopped, current_file and
\* volume unchanged.
C2_FailedStopLeavesSession ==
    \A t \in Threads :
        Failed(t) /\ cmd[t] = "stop_song" /\ result[t] = SinkCreationError
            => audio = before

\* C3: at most one command is in its section at a time and the one that is
\* holds the mutex, so that nobody reads a record another command is in the
\* middle of updating; and whenever no command is in its section the
\* AudioState is the one the commands give when run one after another in the
\* order in which they locked.
C3_ExclusiveAndSerial ==
    /\ Cardinality({t \in Threads : InSection(t)}) <= 1
    /\ \A t \in Threads : InSection(t) => mutex.holder = t
    /\ (\A t \in Threads : ~InSection(t)) => audio = serial

\* One thread is in the middle of set_volume, with the volume stored and the
\* sink's gain not yet set, while another waits for the mutex.
C3_Witness ==
    \E t, u \in Threads :
        /\ pc[t] = "volume_sink"
        /\ audio.volume # audio.sink.volume
        /\ pc[u] = "lock"
        /\ audio # serial

\* C4: whenever no command is in its section, the gain of the active sink is
\* the stored volume.
C4_SinkGainIsVolume ==
    (\A t \in Threads : ~InSection(t)) => audio.sink.volume = audio.volume

\* C5: at no instant do the old sink and the new sink of a play_song or a
\* seek_to both produce sound.
C5_OneSinkSounding ==
    \A t \in Threads :
        new_sink[t] # None =>
            ~(Sounding(new_sink[t][1]) /\ Sounding(audio.sink))

\* C6 as stated: a command is at its emit only after it has released the
\* mutex, so no event is emitted while the mutex is held.
C6_EmitAfterRelease ==
    \A t \in Threads : AtEmit(t) => mutex.holder # t

\* C6 as amended: a command emits its event while it still holds the mutex,
\* and keeps the mutex from the emit until its function returns: the order
\* is lock, mutate, emit, unlock.
C6_EmitUnderLock ==
    \A t \in Threads : AtEmit(t) \/ sent[t] # <<>> => mutex.holder = t

\* A command has emitted its event and still holds the mutex, while another
\* thread waits for it.
C6_Witness ==
    \E t, u \in Threads :
        /\ sent[t] # <<>>
        /\ mutex.holder = t
        /\ pc[u] = "lock"

\* C7: events are published in the order of the mutations: a command at its
\* emit is the one whose mutation is the oldest not yet published; and
\* whenever no command is in its section, the event published last carries
\* the current_file and the volume of the AudioState.
C7_EventsInCommitOrder ==
    /\ \A t \in Threads : AtEmit(t) => pending # <<>> /\ Head(pending) = t
    /\ (\A t \in Threads : ~InSection(t)) /\ last_event # None =>
            /\ last_event[1].file_path = audio.current_file
            /\ last_event[1].volume = Some(audio.volume)

\* With an earlier event published, a command is about to emit the event of
\* its mutation while another thread waits to make its own.
C7_Witness ==
    \E t, u \in Threads :
        /\ AtEmit(t)
        /\ pending = <<t>>
        /\ last_event # None
        /\ pc[u] = "lock"
        /\ cmd[u] \in {"set_volume", "stop_song"}

\* C8: every command returns, with the mutex unlocked and usable by the
\* commands that follow: no thread is lost in a command and the mutex is
\* never poisoned.
C8_LockStaysUsable ==
    /\ ~mutex.poisoned
    /\ \A t \in Threads : pc[t] # "panicked"

\* The status each command emits.
StatusOf(c) ==
    CASE c = "play_song" -> "playing"
      [] c = "pause_song" -> "paused"
      [] c = "resume_song" -> "playing"
      [] c = "stop_song" -> "stopped"
      [] c = "set_volume" -> "volume"
      [] c = "seek_to" -> "seeking"

\* C9: a command that returns Ok has emitted exactly one event, of the status
\* of the command; a command that returns an error has emitted none.
C9_OneEventPerSuccess ==
    \A t \in Threads :
        /\ Succeeded(t) =>
              Len(sent[t]) = 1 /\ sent[t][1].status = StatusOf(cmd[t])
        /\ Failed(t) => sent[t] = <<>>

\* A stop_song of a loaded track has returned Ok, its one event emitted.
C9_Witness ==
    \E t \in Threads :
        /\ Succeeded(t)
        /\ cmd[t] = "stop_song"
        /\ before.current_file # None

\* The position each command emits.
PositionOf(t) ==
    CASE cmd[t] = "play_song" -> Some(0)
      [] cmd[t] = "seek_to" ->
            Some(IF position_seconds[t][1] > 0 THEN position_seconds[t][1]
                 ELSE 0)
      [] OTHER -> None

\* The events of the end-to-end scenario.
ScenarioEvents ==
    << AudioEventPayload("playing", Some("track.mp3"), Some(0), Some(10)),
       AudioEventPayload("paused", Some("track.mp3"), None, Some(10)),
       AudioEventPayload("volume", Some("track.mp3"), None, Some(5)),
       AudioEventPayload("seeking", Some("track.mp3"), Some(30), Some(5)),
       AudioEventPayload("stopped", None, None, Some(5)) >>

\* C10: the event of a command carries the AudioState as the command leaves
\* it: current_file, the volume, and the position 0 for play_song,
\* max(seconds, 0) for seek_to and none for the others; and the calls of
\* Scenario, made from the initial state, emit ScenarioEvents.
C10_EventCarriesState ==
    /\ \A t \in Threads :
          Succeeded(t) /\ sent[t] # <<>> =>
              /\ sent[t][1].file_path = audio.current_file
              /\ sent[t][1].volume = Some(audio.volume)
              /\ sent[t][1].position = PositionOf(t)
    /\ scenario \in 1..Len(Scenario) /\ mutex.holder = NoThread =>
          last_event = Some(ScenarioEvents[scenario])

\* The five calls of the scenario have been made and the last event is the
\* one of stop_song.
C10_Witness ==
    /\ scenario = Len(Scenario)
    /\ mutex.holder = NoThread
    /\ last_event = Some(ScenarioEvents[Len(Scenario)])

\* C11: a seek_to that finds current_file absent fails with "No track
\* loaded", emits no event and leaves the AudioState (sink, paused or not,
\* volume, current_file) as it was.
C11_SeekWithoutTrack ==
    \A t \in Threads :
        cmd[t] = "seek_to" /\ InSection(t) /\ before.current_file = None =>
            /\ \/ pc[t] = "seek_current_file"
               \/ pc[t] = "return" /\ result[t] = NoTrackLoaded
            /\ sent[t] = <<>>
            /\ audio = before

\* A seek_to has failed with "No track loaded" in a session whose volume is
\* no longer the initial one.
C11_Witness ==
    \E t \in Threads :
        /\ Failed(t)
        /\ cmd[t] = "seek_to"
        /\ result[t] = NoTrackLoaded
        /\ audio.current_file = None
        /\ audio.volume # FullVolume

\* C12 as stated: after a stop_song, whatever it returned, current_file is
\* absent.
C12_StopAlwaysClears ==
    \A t \in Threads :
        pc[t] = "return" /\ cmd[t] = "stop_song" => audio.current_file = None

\* C12 as amended: after a stop_song that returned Ok current_file is absent,
\* whatever the state it began in; a stop_song that returned an error has
\* left current_file as it was.
C12_SuccessfulStopClears ==
    \A t \in Threads :
        pc[t] = "return" /\ cmd[t] = "stop_song" =>
            IF result[t] = Ok THEN audio.current_file = None
            ELSE audio.current_file = before.current_file

\* A stop_song of a loaded, paused track has returned Ok.
C12_Witness ==
    \E t \in Threads :
        /\ Succeeded(t)
        /\ cmd[t] = "stop_song"
        /\ before.current_file # None
        /\ before.sink.paused
        /\ audio.current_file = None

\* The statement of C13 that both readings share: whenever no command is in
\* its section, current_file is present exactly when play_song or seek_to
\* has installed a sink since stop_song last replaced it (or since run()).
TrackIffInstalled ==
    (\A t \in Threads : ~InSection(t)) =>
        (audio.current_file # None <=> installed)

\* C13 as stated: current_file is present exactly when a sink was installed
\* since the last stop_song, and it is absent after every stop_song.
C13_TrackIffInstalledSinceAnyStop ==
    /\ TrackIffInstalled
    /\ \A t \in Threads :
          pc[t] = "return" /\ cmd[t] = "stop_song" =>
              audio.current_file = None /\ ~installed

\* C13 as amended: current_file is present exactly when a sink was installed
\* since the last stop_song that returned Ok (or since run()); it is absent
\* initially and after every stop_song that returned Ok.
C13_TrackIffInstalledSinceStop ==
    /\ TrackIffInstalled
    /\ scenario = 0 => audio.current_file = None /\ ~installed
    /\ \A t \in Threads :
          Succeeded(t) /\ cmd[t] = "stop_song" =>
              audio.current_file = None /\ ~installed

\* With no command in its section, a track is loaded whose sink was installed
\* by a seek_to, and a stop_song is waiting.
C13_Witness ==
    \E t \in Threads :
        /\ \A u \in Threads : ~InSection(u)
        /\ installed
        /\ audio.current_file # None
        /\ audio.sink.queue # None
        /\ audio.sink.queue[1].skip > 0
        /\ pc[t] = "lock"
        /\ cmd[t] = "stop_song"

\* C14: in every state the stored volume is in the range 0.0 to 1.0, and it
\* is 1.0 until the first command.
C14_VolumeInRange ==
    /\ audio.volume \in 0..FullVolume
    /\ scenario = 0 => audio.volume = FullVolume

\* A set_volume below 0.0 has stored 0.0.
C14_Witness ==
    \E t \in Threads :
        /\ Succeeded(t)
        /\ cmd[t] = "set_volume"
        /\ level[t][1] < 0
        /\ audio.volume = 0

\* clamp(level, 0, 1) of the specification, in tenths.
ClampedLevel(l) == IF l <= 0 THEN 0 ELSE IF l >= 10 THEN 10 ELSE l

\* C15: set_volume stores clamp(level, 0, 1) and sets the gain of the active
\* sink to it, and changes nothing else: the sink's stopped and paused flags
\* and its queue, and current_file, are as they were.  A set_volume that
\* fails changes nothing.
C15_SetVolumeInPlace ==
    \A t \in Threads :
        pc[t] = "return" /\ cmd[t] = "set_volume" =>
            IF result[t] = Ok
            THEN audio = [before EXCEPT
                            !.volume = ClampedLevel(level[t][1]),
                            !.sink.volume = ClampedLevel(level[t][1])]
            ELSE audio = before

\* A set_volume above 1.0 has returned Ok while a track plays at another
\* volume.
C15_Witness ==
    \E t \in Threads :
        /\ Succeeded(t)
        /\ cmd[t] = "set_volume"
        /\ level[t][1] > 10
        /\ before.volume # 10
        /\ Sounding(before.sink)

\* C16: pause_song and resume_song change the paused flag of the active sink
\* and nothing else: the sink's queue, gain and stopped flag, current_file
\* and volume are as they were.
C16_PauseResumeInPlace ==
    \A t \in Threads :
        pc[t] = "return" /\ cmd[t] \in {"pause_song", "resume_song"} =>
            IF result[t] = Ok
            THEN audio = [before EXCEPT !.sink.paused = (cmd[t] = "pause_song")]
            ELSE audio = before

\* A resume_song of a paused track, at a volume other than 1.0, has returned
\* Ok.
C16_Witness ==
    \E t \in Threads :
        /\ Succeeded(t)
        /\ cmd[t] = "resume_song"
        /\ before.sink.paused
        /\ before.sink.queue # None
        /\ before.volume # FullVolume

\* C17: a seek_to that returned Ok has put in the place of the active sink a
\* new one (playing, at the session's volume) whose source is the current
\* track skipped by max(seconds, 0), and has left current_file and volume as
\* they were; for a negative seconds the skip and the emitted position are 0,
\* those of a seek_to(0).
C17_SeekReplacesSink ==
    \A t \in Threads :
        Succeeded(t) /\ cmd[t] = "seek_to" =>
            /\ audio =
                 [before EXCEPT !.sink =
                    [stopped |-> FALSE, paused |-> FALSE,
                     queue |-> Some([file |-> before.current_file[1],
                                     skip |-> PositionOf(t)[1]]),
                     volume |-> before.volume]]
            /\ sent[t][1].position = PositionOf(t)
            /\ position_seconds[t][1] <= 0 =>
                  /\ audio.sink.queue[1].skip = 0
                  /\ sent[t][1].position = Some(0)

\* A seek_to with a negative position has returned Ok on a track that was
\* playing from a later position.
C17_Witness ==
    \E t \in Threads :
        /\ Succeeded(t)
        /\ cmd[t] = "seek_to"
        /\ position_seconds[t][1] < 0
        /\ before.sink.queue # None
        /\ before.sink.queue[1].skip > 0

\* C18: no command but set_volume changes the stored volume, at any of its
\* statements and whatever it returns, and a set_volume that fails does not
\* change it either.
C18_OnlySetVolumeChangesVolume ==
    \A t \in Threads :
        (InSection(t) /\ cmd[t] # "set_volume") \/ Failed(t) =>
            audio.volume = before.volume

\* A stop_song has returned Ok in a session whose volume is 0.0.
C18_Witness ==
    \E t \in Threads :
        /\ Succeeded(t)
        /\ cmd[t] = "stop_song"
        /\ before.volume = 0
        /\ audio.volume = 0

\* C19: after a play_song or a seek_to that returned Ok the active sink is
\* not paused; and of the commands that return Ok in a paused session, only
\* set_volume and pause_song leave it paused.
C19_ReplacementUnpauses ==
    \A t \in Threads :
        Succeeded(t) =>
            /\ cmd[t] \in {"play_song", "seek_to"} => ~audio.sink.paused
            /\ before.sink.paused =>
                  (audio.sink.paused <=>
                      cmd[t] \in {"set_volume", "pause_song"})

\* A seek_to has returned Ok in a session that was paused.
C19_Witness ==
    \E t \in Threads :
        /\ Succeeded(t)
        /\ cmd[t] = "seek_to"
        /\ before.sink.paused
        /\ before.sink.queue # None

\* C20: pause_song and resume_song return Ok in every state; with no track
\* loaded they leave current_file absent and emit "paused", respectively
\* "playing", with no file identity.
C20_PauseResumeAlwaysSucceed ==
    \A t \in Threads :
        pc[t] = "return" /\ cmd[t] \in {"pause_song", "resume_song"} =>
            /\ result[t] = Ok
            /\ before.current_file = None =>
                  /\ audio.current_file = None
                  /\ sent[t] = << AudioEventPayload(StatusOf(cmd[t]), None,
                                                    None, Some(audio.volume)) >>

====
